---- MODULE Spec2Model ----
(***************************************************************************)
(* Model of the metrics synchronisation layer of the Network Performance   *)
(* Monitor frontend: the MetricsProvider store (contexts/MetricsContext),  *)
(* the consumers' selection effect and the MultiSelect handlers.           *)
(*                                                                         *)
(* React semantics used: all setState calls of one synchronous run (an     *)
(* event handler, an effect, the continuation of an await) are applied as  *)
(* one batch; the passive effects whose dependencies changed run right     *)
(* after the commit, so every action below ends with the selection effect  *)
(* applied.  A closure created during a render keeps the state values of   *)
(* that render.                                                            *)
(***************************************************************************)
EXTENDS Integers, Sequences, FiniteSets, Bags, TLC

\* ---------------------------------------------------------------- bounds
MaxTs == 2
MaxFetches == 2
MaxHist == 2
MaxCount == 3

\* ------------------------------------------------------- program constants
BytesPerMB == 1048576

Ifaces == {"eth0", "wlan0"}
NameLists == {<<>>, <<"eth0">>, <<"eth0", "wlan0">>}
Null == "null"
FetchErrorMessage == "Failed to fetch network metrics"
Topic == "metrics-update"

VARIABLES
    metrics, interfaces, chartData, latestMetrics, avgLatency, avgThroughput,
    availableInterfaces, selectedInterfaces, loading, error,
    phase, wsService, subscription, wsCalls, pending, nfetch,
    console, last, history, pushed, explicit, everAvailable, delivered,
    atTeardown,
    mode,
    metric, row,
    script, option, fsys, pc, MODE, cwd, trapSet, procs, pidFiles, steps, exitStatus,
    first, disturbed

store == <<metrics, interfaces, chartData, latestMetrics, avgLatency,
           avgThroughput, availableInterfaces, selectedInterfaces, loading, error>>
\* the provider, with the observations made of it
providerVars ==
    <<metrics, interfaces, chartData, latestMetrics, avgLatency, avgThroughput,
      availableInterfaces, selectedInterfaces, loading, error,
      phase, wsService, subscription, wsCalls, pending, nfetch,
      console, last, history, pushed, explicit, everAvailable, delivered,
      atTeardown>>

\* Home: the view mode chosen with the four buttons
homeVars == <<mode>>

\* TableMode: the sample being transformed and the row made of it
tableVars == <<metric, row>>

\* one run of a run script
scriptVars ==
    <<script, option, fsys, pc, MODE, cwd, trapSet, procs, pidFiles, steps, exitStatus,
      first, disturbed>>

vars == <<providerVars, homeVars, tableVars, scriptVars>>

\* ---------------------------------------------------------------- helpers
Range(s) == {s[i] : i \in DOMAIN s}

Max(a, b) == IF a >= b THEN a ELSE b

Min(a, b) == IF a <= b THEN a ELSE b

RECURSIVE SumSeq(_)
SumSeq(s) == IF s = <<>> THEN 0 ELSE Head(s) + SumSeq(Tail(s))

Map(s, F(_)) == [i \in DOMAIN s |-> F(s[i])]

\* ------------------------------------------------------------ data fixtures
\* One PerformanceMetric per (interface, timestamp); the values differ per
\* timestamp and per interface so that two snapshots are told apart.
Offset(n) == IF n = "eth0" THEN 0 ELSE 4

Sample(n, t) ==
    [interface |-> n, timestamp |-> t,
     latency |-> 10 * t + Offset(n), throughput |-> 20 * t + 2 * Offset(n),
     packets_sent |-> 100, packets_recv |-> 100 - 2 * t,
     bytes_recv |-> 2 * t * BytesPerMB]

Iface(n) == [name |-> n, ipv4 |-> IF n = "eth0" THEN "10.0.0.2" ELSE "10.0.0.3"]

Samples(names, t) == [i \in DOMAIN names |-> Sample(names[i], t)]

Infos(names) == [i \in DOMAIN names |-> Iface(names[i])]

\* AllMetrics as returned by fetchAllMetrics and as carried in historical_data
AllMetrics(names, t) ==
    [performance_metrics |-> Samples(names, t), interfaces |-> Infos(names), timestamp |-> t]

ZeroLatest == [latency |-> 0, throughput |-> 0, packetLoss |-> 0, bandwidth |-> 0]

\* ------------------------------------------------ derived per-sample fields
\* A counter that is absent from the sample (undefined) is read with `|| 0`.
Missing == -1

OrZero(v) == IF v = Missing \/ v = 0 THEN 0 ELSE v

\* Exact quotients are kept as fractions num/den with den > 0.
Fraction(n, d) == [num |-> n, den |-> d]

\* Math.max(0, q)
MaxZero(q) == IF q.num < 0 THEN Fraction(0, 1) ELSE q

\* sent > 0 ? ((sent - recv) / sent) * 100 : 0
packetLoss(m) ==
    LET sent == OrZero(m.packets_sent)
        recv == OrZero(m.packets_recv)
    IN  IF sent > 0 THEN Fraction((sent - recv) * 100, sent) ELSE Fraction(0, 1)

\* (bytes_recv || 0) / (1024 * 1024)
bandwidth(m) == Fraction(OrZero(m.bytes_recv), BytesPerMB)

\* the fields as the KPI computation uses them (whole units)
PacketLoss(m) == LET q == MaxZero(packetLoss(m)) IN q.num \div q.den

Bandwidth(m) == LET q == bandwidth(m) IN q.num \div q.den

\* --------------------------------------------------------------- lib/api
\* Aggregate Calculator: samples filtered to the selected interfaces; all
\* KPIs 0 when nothing is left; averages are arithmetic means; the latest
\* values are taken from the most recent sample per interface and averaged.
Mean(s) == IF s = <<>> THEN 0 ELSE SumSeq(s) \div Len(s)

IsMostRecent(filtered, i) ==
    \A j \in DOMAIN filtered :
        (filtered[j].interface = filtered[i].interface /\ j # i)
            => (filtered[j].timestamp < filtered[i].timestamp
                \/ (filtered[j].timestamp = filtered[i].timestamp /\ j < i))

getLatestMetrics(pm, selected) ==
    LET Sel(m) == m.interface \in Range(selected)
        filtered == SelectSeq(pm, Sel)
        idx == [i \in DOMAIN filtered |-> i]
        Recent(i) == IsMostRecent(filtered, i)
        recentIdx == SelectSeq(idx, Recent)
        recent == [k \in DOMAIN recentIdx |-> filtered[recentIdx[k]]]
        Lat(m) == m.latency
        Thr(m) == m.throughput
    IN  IF filtered = <<>>
        THEN [latestMetric |-> ZeroLatest, avgLatency |-> 0, avgThroughput |-> 0]
        ELSE [latestMetric |->
                 [latency |-> Mean(Map(recent, Lat)),
                  throughput |-> Mean(Map(recent, Thr)),
                  packetLoss |-> Mean(Map(recent, PacketLoss)),
                  bandwidth |-> Mean(Map(recent, Bandwidth))],
              avgLatency |-> Mean(Map(filtered, Lat)),
              avgThroughput |-> Mean(Map(filtered, Thr))]

\* Series Builder: one ChartPoint per snapshot, in snapshot order, labelled
\* with the snapshot's timestamp and carrying latency_<iface> and
\* throughput_<iface> for every sample of that snapshot.
TimeLabel(t) == <<"time", t>>

ChartPoint(snap) ==
    LET pm == snap.performance_metrics
        names == {pm[i].interface : i \in DOMAIN pm}
        Of(n) == CHOOSE i \in DOMAIN pm :
                    pm[i].interface = n /\ \A j \in DOMAIN pm : pm[j].interface = n => j <= i
    IN  [time |-> TimeLabel(snap.timestamp),
         fields |-> [k \in {"latency", "throughput"} \X names |->
                        IF k[1] = "latency" THEN pm[Of(k[2])].latency
                        ELSE pm[Of(k[2])].throughput]]

convertHistoricalToChartData(hist) == [i \in DOMAIN hist |-> ChartPoint(hist[i])]

\* ------------------------------------------------------- selection effect
\* useEffect(() => { if (available.length > 0 && selected.length === 0)
\*                     setSelectedInterfaces(available) }, [...])
autoSelectEffect_Never(available, selected) == selected

autoSelectEffect(available, selected) ==
    IF Len(available) > 0 /\ Len(selected) = 0 THEN available ELSE selected

\* --------------------------------------------------------- push payloads
\* A JavaScript value that may be missing: tag "undefined", an array (val),
\* or some other truthy value.
Undef == [tag |-> "undefined", val |-> <<>>]
Arr(s) == [tag |-> "array", val |-> s]
NonArray == [tag |-> "other", val |-> <<>>]
Truthy(v) == v.tag # "undefined"
IsArray(v) == v.tag = "array"

NoCurrent == [tag |-> "undefined", performance_metrics |-> Undef, interfaces |-> Undef]

NullPayload ==
    [isNull |-> TRUE, current_data |-> NoCurrent, historical_data |-> Undef,
     performance_metrics |-> Undef, interfaces |-> Undef, foo |-> Undef]

FooPayload == [NullPayload EXCEPT !.isNull = FALSE, !.foo = NonArray]

\* the server sends the last MaxHist snapshots, the current one included
CurrentShape(names, t) ==
    [isNull |-> FALSE,
     current_data |-> [tag |-> "object",
                       performance_metrics |-> Arr(Samples(names, t)),
                       interfaces |-> Arr(Infos(names))],
     historical_data |-> LET k == Min(t, MaxHist)
                         IN  Arr([i \in 1..k |-> AllMetrics(names, t - k + i)]),
     performance_metrics |-> Undef, interfaces |-> Undef, foo |-> Undef]

LegacyShape(names, t, withInterfaces) ==
    [isNull |-> FALSE, current_data |-> NoCurrent, historical_data |-> Undef,
     performance_metrics |-> Arr(Samples(names, t)),
     interfaces |-> IF withInterfaces THEN Arr(Infos(names)) ELSE Undef,
     foo |-> Undef]

\* payloads that match neither wire shape
MalformedPayloads ==
    { NullPayload,
      FooPayload,
      [CurrentShape(<<"eth0">>, 1) EXCEPT !.historical_data = Undef],
      [FooPayload EXCEPT !.historical_data = Arr(<<>>)],
      [LegacyShape(<<"eth0">>, 1, TRUE) EXCEPT !.performance_metrics = NonArray],
      [LegacyShape(<<"eth0">>, 1, TRUE) EXCEPT !.performance_metrics = Undef] }

\* current-shape payloads whose current_data lacks performance_metrics,
\* interfaces, or both
PartialPayloads ==
    UNION { { [CurrentShape(names, t) EXCEPT !.current_data.interfaces = Undef],
              [CurrentShape(names, t) EXCEPT !.current_data.performance_metrics = Undef],
              [CurrentShape(names, t) EXCEPT !.current_data.performance_metrics = Undef,
                                             !.current_data.interfaces = Undef] }
            : names \in NameLists \ {<<>>}, t \in 1..MaxTs }

IsCurrentShape(data) ==
    ~data.isNull /\ Truthy(data.current_data) /\ Truthy(data.historical_data)

IsLegacyShape_NoArrayCheck(data) ==
    ~data.isNull /\ Truthy(data.performance_metrics)

IsLegacyShape(data) ==
    ~data.isNull /\ Truthy(data.performance_metrics) /\ IsArray(data.performance_metrics)

OrEmpty(v) == IF Truthy(v) THEN v.val ELSE <<>>

Names(infos) == [i \in DOMAIN infos |-> infos[i].name]

\* ------------------------------------------------------------------ state
\* metrics .. error        the useState cells of MetricsProvider
\* phase                   "constructed" (first render done, effects not yet
\*                         run), "mounted" or "unmounted"
\* wsService               whether lib/api exports a push channel
\* subscription            the handler registered on the channel, with the
\*                         selectedInterfaces its closure captured
\* wsCalls                 the calls made on wsService, in order
\* pending                 the bag of pulls in flight, each with the selectedInterfaces
\*                         captured by the fetchData closure that started it
\*                         (initial: the pull started by the mount effect)
\* nfetch                  the number of pulls started so far
\* console                 the diagnostic written by the last step, if any
\* last, history, pushed, explicit, everAvailable
\*                         observation only: the last operation, the timestamps
\*                         of the accepted updates, whether a push has been
\*                         applied, the operator's last explicit selection
\*                         (dropped when the available names change), every
\*                         name that has been available, the interface list
\*                         carried by the last settled update
RECURSIVE MaxOf(_)
MaxOf(S) == IF S = {} THEN 0
            ELSE LET x == CHOOSE y \in S : TRUE IN Max(x, MaxOf(S \ {x}))

\* the highest timestamp among the updates applied so far (0: none)
lastAppliedTs == MaxOf(history)

NoSubscription == [active |-> FALSE, topic |-> Topic, selectedInterfaces |-> <<>>]

\* a call wsService.<op>('metrics-update', handleWebSocketUpdate); the handler
\* is the closure created by the run of the mount effect
Handler == "handleWebSocketUpdate"

WsCall(op) == [op |-> op, topic |-> Topic, handler |-> Handler]

NoExplicit == [on |-> FALSE, sel |-> <<>>]

Observed(op, stale, fill, overtaken) ==
    [op |-> op, stale |-> stale, fill |-> fill, overtaken |-> overtaken]

Step(op) == Observed(op, FALSE, FALSE, FALSE)

\* atTeardown              the store as it was when the provider was torn
\*                         down (NoTeardown before)
NoTeardown == <<>>

ProviderInit ==
    /\ metrics = <<>>
    /\ interfaces = <<>>
    /\ chartData = <<>>
    /\ latestMetrics = ZeroLatest
    /\ avgLatency = 0
    /\ avgThroughput = 0
    /\ availableInterfaces = <<>>
    /\ selectedInterfaces = <<>>
    /\ loading = TRUE
    /\ error = Null
    /\ phase = "constructed"
    /\ wsService \in BOOLEAN
    /\ subscription = NoSubscription
    /\ wsCalls = <<>>
    /\ pending = EmptyBag
    /\ nfetch = 0
    /\ console = "none"
    /\ last = Step("other")
    /\ history = {}
    /\ pushed = FALSE
    /\ explicit = NoExplicit
    /\ everAvailable = {}
    /\ delivered = <<>>
    /\ atTeardown = NoTeardown

\* Home after construction: useState("dashboard")
HomeInit == mode = "dashboard"

\* observation of an update that installs the names `names` with timestamp ts
KeepExplicit(names) ==
    IF Range(names) = Range(availableInterfaces) THEN explicit ELSE NoExplicit

IsFill(names) ==
    availableInterfaces = <<>> /\ selectedInterfaces = <<>> /\ names # <<>>

\* fetchData up to its await: setLoading(true); setError(null); the request
\* is in flight with the selectedInterfaces of the calling render.
StartFetch ==
    /\ nfetch' = nfetch + 1
    /\ pending' = pending (+)
          SetToBag({[selectedInterfaces |-> selectedInterfaces, initial |-> nfetch = 0]})
    /\ error' = Null

\* The mount effect: fetchData(), then subscribe when the channel exists,
\* else warn and setLoading(false).
Mount ==
    /\ phase = "constructed"
    /\ phase' = "mounted"
    /\ StartFetch
    /\ IF wsService
       THEN /\ subscription' = [active |-> TRUE, topic |-> Topic,
                                selectedInterfaces |-> selectedInterfaces]
            /\ wsCalls' = Append(wsCalls, WsCall("subscribe"))
            /\ loading' = TRUE
            /\ console' = "none"
       ELSE /\ subscription' = subscription
            /\ wsCalls' = wsCalls
            /\ loading' = FALSE
            /\ console' = "warn: wsService is not available"
    /\ selectedInterfaces' = autoSelectEffect(availableInterfaces, selectedInterfaces)
    /\ last' = Step("other")
    /\ UNCHANGED <<metrics, interfaces, chartData, latestMetrics, avgLatency,
                   avgThroughput, availableInterfaces, wsService,
                   pushed, history, explicit, everAvailable, delivered, atTeardown, homeVars, tableVars, scriptVars>>

\* The cleanup returned by the mount effect, run when the provider is torn
\* down: unsubscribe the handler.  Without a channel the effect returned no
\* cleanup.  The state cells are left as they were.
Unmount_NoCleanup ==
    /\ phase = "mounted"
    /\ phase' = "unmounted"
    /\ UNCHANGED <<subscription, wsCalls>>
    /\ atTeardown' = store
    /\ last' = Step("unmount")
    /\ console' = "none"
    /\ UNCHANGED <<store, wsService, pending, nfetch, pushed, history, explicit,
                   everAvailable, delivered, homeVars, tableVars, scriptVars>>

Unmount ==
    /\ phase = "mounted"
    /\ phase' = "unmounted"
    /\ IF subscription.active /\ wsService
       THEN /\ subscription' = NoSubscription
            /\ wsCalls' = Append(wsCalls, WsCall("unsubscribe"))
       ELSE UNCHANGED <<subscription, wsCalls>>
    /\ atTeardown' = store
    /\ last' = Step("unmount")
    /\ console' = "none"
    /\ UNCHANGED <<store, wsService, pending, nfetch, pushed, history, explicit,
                   everAvailable, delivered, homeVars, tableVars, scriptVars>>

refreshData ==
    /\ phase = "mounted"
    /\ nfetch < MaxFetches
    /\ StartFetch
    /\ loading' = TRUE
    /\ last' = Step("other")
    /\ console' = "none"
    /\ UNCHANGED <<metrics, interfaces, chartData, latestMetrics, avgLatency,
                   avgThroughput, availableInterfaces, selectedInterfaces, phase,
                   wsService, subscription, wsCalls, pushed,
                   history, explicit, everAvailable, delivered, atTeardown, homeVars, tableVars, scriptVars>>

\* fetchData after the await resolved with allMetrics
fetchDataResolved(f, allMetrics) ==
    LET kpi == getLatestMetrics(allMetrics.performance_metrics, f.selectedInterfaces)
        interfaceNames == Names(allMetrics.interfaces)
    IN  /\ metrics' = allMetrics.performance_metrics
        /\ interfaces' = allMetrics.interfaces
        /\ chartData' = convertHistoricalToChartData(<<allMetrics>>)
        /\ latestMetrics' = kpi.latestMetric
        /\ avgLatency' = kpi.avgLatency
        /\ avgThroughput' = kpi.avgThroughput
        /\ availableInterfaces' = interfaceNames
        /\ loading' = FALSE
        /\ selectedInterfaces' = autoSelectEffect(interfaceNames, selectedInterfaces)
        /\ console' = "none"
        /\ UNCHANGED error

fetchDataRejected_KeepsSeries ==
    /\ console' = "error: Error fetching metrics"
    /\ error' = FetchErrorMessage
    /\ metrics' = <<>>
    /\ interfaces' = <<>>
    /\ latestMetrics' = ZeroLatest
    /\ avgLatency' = 0
    /\ avgThroughput' = 0
    /\ availableInterfaces' = <<>>
    /\ loading' = FALSE
    /\ selectedInterfaces' = autoSelectEffect(<<>>, selectedInterfaces)
    /\ UNCHANGED chartData

fetchDataRejected_NoFinally ==
    /\ console' = "error: Error fetching metrics"
    /\ error' = FetchErrorMessage
    /\ metrics' = <<>>
    /\ interfaces' = <<>>
    /\ chartData' = <<>>
    /\ latestMetrics' = ZeroLatest
    /\ avgLatency' = 0
    /\ avgThroughput' = 0
    /\ availableInterfaces' = <<>>
    /\ selectedInterfaces' = autoSelectEffect(<<>>, selectedInterfaces)
    /\ UNCHANGED loading

\* fetchData after the await rejected: catch, then finally
fetchDataRejected ==
    /\ console' = "error: Error fetching metrics"
    /\ error' = FetchErrorMessage
    /\ metrics' = <<>>
    /\ interfaces' = <<>>
    /\ chartData' = <<>>
    /\ latestMetrics' = ZeroLatest
    /\ avgLatency' = 0
    /\ avgThroughput' = 0
    /\ availableInterfaces' = <<>>
    /\ loading' = FALSE
    /\ selectedInterfaces' = autoSelectEffect(<<>>, selectedInterfaces)

AfterUnmount_Applies(diagnostic) ==
    /\ console' = diagnostic
    /\ last' = Step("settledAfterUnmount")
    /\ loading' = FALSE
    /\ UNCHANGED <<metrics, interfaces, chartData, latestMetrics, avgLatency,
                   avgThroughput, availableInterfaces, selectedInterfaces, error,
                   history, explicit, everAvailable, delivered>>

\* A pull that settles after the provider was torn down: React ignores the
\* setState calls of an unmounted component, the diagnostic is still written.
AfterUnmount(diagnostic) ==
    /\ console' = diagnostic
    /\ last' = Step("settledAfterUnmount")
    /\ UNCHANGED <<store, history, explicit, everAvailable, delivered>>

FetchOk ==
    \E f \in BagToSet(pending) :
        /\ pending' = pending (-) SetToBag({f})
        /\ IF phase = "mounted"
           THEN \E names \in NameLists, t \in 1..MaxTs :
                   /\ fetchDataResolved(f, AllMetrics(names, t))
                   /\ last' = Observed("fetchOk", t < lastAppliedTs, IsFill(names),
                                       f.initial /\ pushed)
                   /\ history' = history \cup {t}
                   /\ explicit' = KeepExplicit(names)
                   /\ everAvailable' = everAvailable \cup Range(names)
                   /\ delivered' = Infos(names)
           ELSE AfterUnmount("none")
        /\ UNCHANGED <<phase, wsService, subscription, wsCalls, nfetch, pushed,
                       atTeardown, homeVars, tableVars, scriptVars>>

FetchFail ==
    \E f \in BagToSet(pending) :
        /\ pending' = pending (-) SetToBag({f})
        /\ IF phase = "mounted"
           THEN /\ fetchDataRejected
                /\ last' = Step("fetchFail")
                /\ explicit' = KeepExplicit(<<>>)
                /\ delivered' = <<>>
                /\ UNCHANGED <<history, everAvailable>>
           ELSE AfterUnmount("error: Error fetching metrics")
        /\ UNCHANGED <<phase, wsService, subscription, wsCalls, nfetch, pushed,
                       atTeardown, homeVars, tableVars, scriptVars>>

\* handleWebSocketUpdate(data), received at instant now.  The closure was
\* created by the mount effect, so the selectedInterfaces it reads are the
\* ones captured in the subscription.
ApplyPush_MergesNames(pm, infos, hist) ==
    LET closureSelected == subscription.selectedInterfaces
        kpi == getLatestMetrics(pm, closureSelected)
        interfaceNames == Names(infos)
        selected == IF Len(closureSelected) = 0 /\ Len(interfaceNames) > 0
                    THEN interfaceNames ELSE selectedInterfaces
    IN  /\ metrics' = pm
        /\ interfaces' = infos
        /\ chartData' = convertHistoricalToChartData(hist)
        /\ latestMetrics' = kpi.latestMetric
        /\ avgLatency' = kpi.avgLatency
        /\ avgThroughput' = kpi.avgThroughput
        /\ availableInterfaces' =
              LET Fresh(n) == n \notin Range(availableInterfaces)
              IN  availableInterfaces \o SelectSeq(interfaceNames, Fresh)
        /\ selectedInterfaces' = autoSelectEffect(interfaceNames, selected)
        /\ console' = "none"
        /\ UNCHANGED <<loading, error>>

ApplyPush(pm, infos, hist) ==
    LET closureSelected == subscription.selectedInterfaces
        kpi == getLatestMetrics(pm, closureSelected)
        interfaceNames == Names(infos)
        selected == IF Len(closureSelected) = 0 /\ Len(interfaceNames) > 0
                    THEN interfaceNames ELSE selectedInterfaces
    IN  /\ metrics' = pm
        /\ interfaces' = infos
        /\ chartData' = convertHistoricalToChartData(hist)
        /\ latestMetrics' = kpi.latestMetric
        /\ avgLatency' = kpi.avgLatency
        /\ avgThroughput' = kpi.avgThroughput
        /\ availableInterfaces' = interfaceNames
        /\ selectedInterfaces' = autoSelectEffect(interfaceNames, selected)
        /\ console' = "none"
        /\ UNCHANGED <<loading, error>>

\* the value of a state cell set to undefined
Undefined == << [tag |-> "undefined"] >>
Uncaught == "uncaught: TypeError"

\* The current-shape branch when current_data lacks a field.  The setters
\* called before an exception keep their effect.  interfaces.map throws on
\* undefined; what getLatestMetrics (lib/api) does with undefined metrics is
\* not known: it throws, or it returns the KPIs of an empty list.
ApplyPartial(currentData, hist) ==
    LET pm == currentData.performance_metrics
        infos == currentData.interfaces
        closureSelected == subscription.selectedInterfaces
        kpi == getLatestMetrics(OrEmpty(pm), closureSelected)
        interfaceNames == Names(OrEmpty(infos))
        selected == IF Len(closureSelected) = 0 /\ Len(interfaceNames) > 0
                    THEN interfaceNames ELSE selectedInterfaces
    IN  /\ metrics' = IF Truthy(pm) THEN pm.val ELSE Undefined
        /\ interfaces' = IF Truthy(infos) THEN infos.val ELSE Undefined
        /\ chartData' = convertHistoricalToChartData(hist)
        /\ \E kpiThrows \in (IF Truthy(pm) THEN {FALSE} ELSE BOOLEAN) :
              IF kpiThrows
              THEN /\ console' = Uncaught
                   /\ UNCHANGED <<latestMetrics, avgLatency, avgThroughput,
                                  availableInterfaces>>
                   /\ selectedInterfaces' =
                         autoSelectEffect(availableInterfaces, selectedInterfaces)
              ELSE /\ latestMetrics' = kpi.latestMetric
                   /\ avgLatency' = kpi.avgLatency
                   /\ avgThroughput' = kpi.avgThroughput
                   /\ IF Truthy(infos)
                      THEN /\ availableInterfaces' = interfaceNames
                           /\ selectedInterfaces' =
                                 autoSelectEffect(interfaceNames, selected)
                           /\ console' = "none"
                      ELSE /\ console' = Uncaught
                           /\ UNCHANGED availableInterfaces
                           /\ selectedInterfaces' =
                                 autoSelectEffect(availableInterfaces, selectedInterfaces)
        /\ UNCHANGED <<loading, error>>

handleWebSocketUpdate(data, now) ==
    IF IsCurrentShape(data)
    THEN IF Truthy(data.current_data.performance_metrics)
            /\ Truthy(data.current_data.interfaces)
         THEN ApplyPush(data.current_data.performance_metrics.val,
                        data.current_data.interfaces.val,
                        data.historical_data.val)
         ELSE ApplyPartial(data.current_data, data.historical_data.val)
    ELSE IF IsLegacyShape(data)
    THEN ApplyPush(data.performance_metrics.val,
                   OrEmpty(data.interfaces),
                   << [performance_metrics |-> data.performance_metrics.val,
                       interfaces |-> OrEmpty(data.interfaces),
                       timestamp |-> now] >>)
    ELSE /\ console' = "warn: Invalid WebSocket data format"
         /\ UNCHANGED store

\* new Date() at the receipt of a push: no earlier than the timestamp of any
\* update already applied (the snapshots are stamped before they are sent)
ReceiptInstants == Max(1, lastAppliedTs)..MaxTs

PushCurrent ==
    \E names \in NameLists, t \in 1..MaxTs :
        /\ subscription.active
        /\ handleWebSocketUpdate(CurrentShape(names, t), Max(t, lastAppliedTs))
        /\ pushed' = TRUE
        /\ UNCHANGED pending
        /\ last' = Observed("pushCurrent", t < lastAppliedTs, IsFill(names), FALSE)
        /\ history' = history \cup {t}
        /\ explicit' = KeepExplicit(names)
        /\ everAvailable' = everAvailable \cup Range(names)
        /\ delivered' = Infos(names)
        /\ UNCHANGED <<phase, wsService, subscription, wsCalls, nfetch,
                       atTeardown, homeVars, tableVars, scriptVars>>

PushLegacy ==
    \E names \in NameLists, withInterfaces \in BOOLEAN, now \in ReceiptInstants :
        LET installed == IF withInterfaces THEN names ELSE <<>>
        IN  /\ subscription.active
            /\ handleWebSocketUpdate(LegacyShape(names, now, withInterfaces), now)
            /\ pushed' = TRUE
            /\ UNCHANGED pending
            /\ last' = Observed("pushLegacy", now < lastAppliedTs,
                                IsFill(installed), FALSE)
            /\ history' = history \cup {now}
            /\ explicit' = KeepExplicit(installed)
            /\ everAvailable' = everAvailable \cup Range(installed)
            /\ delivered' = Infos(installed)
            /\ UNCHANGED <<phase, wsService, subscription, wsCalls, nfetch,
                       atTeardown, homeVars, tableVars, scriptVars>>

PushMalformed ==
    \E data \in MalformedPayloads :
        /\ subscription.active
        /\ handleWebSocketUpdate(data, Max(1, lastAppliedTs))
        /\ last' = Step("pushMalformed")
        /\ UNCHANGED <<phase, wsService, subscription, wsCalls, pending, nfetch,
                       pushed, history, explicit, everAvailable, delivered, atTeardown, homeVars, tableVars, scriptVars>>

PushPartial ==
    \E data \in PartialPayloads :
        /\ subscription.active
        /\ handleWebSocketUpdate(data, Max(1, lastAppliedTs))
        /\ last' = Step("pushPartial")
        /\ UNCHANGED <<phase, wsService, subscription, wsCalls, pending, nfetch,
                       pushed, history, explicit, everAvailable, delivered,
                       atTeardown, homeVars, tableVars, scriptVars>>

\* ------------------------------------------------------------ MultiSelect
\* The consumers render the MultiSelect (options = availableInterfaces,
\* selected = selectedInterfaces, onChange = setSelectedInterfaces) once the
\* store is neither loading nor in error.
MultiSelectShown == phase = "mounted" /\ ~loading /\ error = Null

Without(s, v) == LET Keep(x) == x # v IN SelectSeq(s, Keep)

\* what the trigger button shows: the placeholder, the collapsed 'All'
\* summary, or one badge per selected value
summary(options, selected) ==
    IF Len(selected) = 0 THEN "placeholder"
    ELSE IF Len(selected) = Len(options) THEN "All"
    ELSE "badges"

\* onChange(next): setSelectedInterfaces(next), then the selection effect
onChange(next) ==
    /\ selectedInterfaces' = autoSelectEffect(availableInterfaces, next)
    /\ explicit' = [on |-> TRUE, sel |-> next]
    /\ last' = Step("onChange")
    /\ console' = "none"
    /\ UNCHANGED <<metrics, interfaces, chartData, latestMetrics, avgLatency,
                   avgThroughput, availableInterfaces, loading, error, phase,
                   wsService, subscription, wsCalls, pending, nfetch,
                   pushed, history, everAvailable, delivered, atTeardown, homeVars, tableVars, scriptVars>>

handleSelect_AnyInterface ==
    \E value \in Ifaces :
        /\ MultiSelectShown
        /\ onChange(IF value \in Range(selectedInterfaces)
                    THEN Without(selectedInterfaces, value)
                    ELSE Append(selectedInterfaces, value))

handleSelect ==
    \E value \in Range(availableInterfaces) :
        /\ MultiSelectShown
        /\ onChange(IF value \in Range(selectedInterfaces)
                    THEN Without(selectedInterfaces, value)
                    ELSE Append(selectedInterfaces, value))

handleRemove ==
    \E value \in Range(selectedInterfaces) :
        /\ MultiSelectShown
        /\ Len(selectedInterfaces) # Len(availableInterfaces)
        /\ onChange(Without(selectedInterfaces, value))

handleSelectAll ==
    /\ MultiSelectShown
    /\ onChange(availableInterfaces)

handleSelectAllLabel ==
    /\ MultiSelectShown
    /\ Len(selectedInterfaces) # 0
    /\ Len(selectedInterfaces) = Len(availableInterfaces)
    /\ onChange(IF Len(selectedInterfaces) = 0 THEN availableInterfaces ELSE <<>>)

handleClear ==
    /\ MultiSelectShown
    /\ onChange(<<>>)

\* ---------------------------------------------------------------- TableMode
\* transformedData: the row TableMode derives from one sample of metrics.
Counters == {Missing} \cup (0..MaxCount)

ByteCounts ==
    {Missing, 0} \cup {k * BytesPerMB - 1 : k \in 1..MaxCount}
                 \cup {k * BytesPerMB : k \in 1..MaxCount}

NoRow == [shown |-> FALSE, packetLoss |-> Fraction(0, 1), bandwidth |-> Fraction(0, 1)]

NoMetric == [packets_sent |-> Missing, packets_recv |-> Missing, bytes_recv |-> Missing]

TableIdle == metric = NoMetric /\ row = NoRow

transformedData_NoClamp(m) ==
    [shown |-> TRUE, packetLoss |-> packetLoss(m), bandwidth |-> bandwidth(m)]

transformedData(m) ==
    [shown |-> TRUE, packetLoss |-> MaxZero(packetLoss(m)), bandwidth |-> bandwidth(m)]

\* TableMode renders with a sample in metrics
TableModeRender ==
    /\ ~row.shown
    /\ row' = transformedData(metric)
    /\ UNCHANGED <<metric, providerVars, homeVars, scriptVars>>

\* -------------------------------------------------------------- run scripts
\* One run of run.sh (bash, set -e) or of run.bat (cmd), started in the
\* project root with one option.
\*   script, option   the script that runs and its first argument ("-x": an
\*                    unrecognised option; the long forms behave as the short)
\*   fsys             the prerequisites present in the project
\*   pc               the function the script is about to run, "done" after exit
\*   MODE, cwd        the script's variable MODE and its working directory
\*   trapSet          run.sh: `trap cleanup EXIT` has been executed
\*   procs            the backend and frontend processes started by the script:
\*                    state and the directory their command was started in
\*   pidFiles         the .pid files in the project root
\*   steps            the observable steps performed so far ("missing": a
\*                    prerequisite reported as not found; "error": another
\*                    error reported)
\*   exitStatus       "none" while running, else the script's exit status
\*   first            the outcome of run.sh when run.bat is run after it in
\*                    the same project with the same option
\*   disturbed        an external command failed (a dependency not installed,
\*                    pip, npm, a server that dies at once), npm is a batch
\*                    file, or the run was interrupted
Scripts == {"run.sh", "run.bat"}

Options == {"-d", "-p", "-s", "-h", "", "-x"}

Root == <<>>
App1 == <<"frontend", "app1">>
Api == <<"backend", "api">>
Requirements == <<"requirements.txt">>
PackageJson == <<"package.json">>

Prerequisites == {Requirements, App1, App1 \o PackageJson, Api}

FileSystems == {fs \in SUBSET Prerequisites : (App1 \o PackageJson) \in fs => App1 \in fs}

\* `[ -f rel ]`, `[ -d rel ]`, `if exist rel` evaluated in directory dir
Exists(dir, rel) == (dir \o rel) \in fsys

\* `cd ..\..` (`cd ../..`)
Up2(dir) == IF Len(dir) >= 2 THEN SubSeq(dir, 1, Len(dir) - 2) ELSE <<"..", "..">> \o dir

Services == {"backend", "frontend"}

PidFile(p) == IF p = "backend" THEN "backend.pid" ELSE "frontend.pid"

NoProc == [st |-> "none", dir |-> Root]

NoProcs == [p \in Services |-> NoProc]

Started(dir) == [st |-> "running", dir |-> dir]

\* the steps and the result of a run
ObservableSteps == {"check", "pip", "npm", "backend", "frontend", "usage"}

IsObservable(step) == step \in ObservableSteps

Outcome == [steps |-> SelectSeq(steps, IsObservable), status |-> exitStatus]

NoOutcome == [steps |-> <<>>, status |-> "none"]

ScriptIdle ==
    /\ first = NoOutcome
    /\ disturbed = FALSE
    /\ script = "run.sh"
    /\ option = ""
    /\ fsys = {}
    /\ pc = "idle"
    /\ MODE = "dev"
    /\ cwd = Root
    /\ trapSet = FALSE
    /\ procs = NoProcs
    /\ pidFiles = {}
    /\ steps = <<>>
    /\ exitStatus = "none"

ModeOf(opt) ==
    CASE opt = "-p" -> "prod"
      [] opt = "-s" -> "setup"
      [] opt = "-h" -> "help"
      [] OTHER -> "dev"

\* the step goes on with function next
Continue(next, dir, ps, files, done) ==
    /\ pc' = next
    /\ cwd' = dir
    /\ procs' = ps
    /\ pidFiles' = files
    /\ steps' = done
    /\ UNCHANGED <<exitStatus, providerVars, homeVars, tableVars, script, option, fsys, first>>

\* ------------------------------------------------------------------ run.sh
\* cleanup(): for each .pid file found in the working directory, kill the
\* process if it is alive and remove the file.  The files are written in the
\* project root.
cleanup(dir, ps, files) ==
    [procs |-> [p \in Services |->
                   IF dir = Root /\ PidFile(p) \in files /\ ps[p].st = "running"
                   THEN [ps[p] EXCEPT !.st = "killed"] ELSE ps[p]],
     pidFiles |-> IF dir = Root THEN {} ELSE files]

\* the shell exits with status code: the EXIT trap, when set, runs cleanup
sh_exit(code, dir, ps, files, done) ==
    /\ pc' = "done"
    /\ exitStatus' = code
    /\ cwd' = dir
    /\ IF trapSet
       THEN /\ procs' = cleanup(dir, ps, files).procs
            /\ pidFiles' = cleanup(dir, ps, files).pidFiles
            /\ steps' = Append(done, "cleanup")
       ELSE /\ procs' = ps
            /\ pidFiles' = files
            /\ steps' = done
    /\ UNCHANGED <<providerVars, homeVars, tableVars, script, option, fsys, first>>

\* main up to `trap cleanup EXIT`
sh_main ==
    /\ script = "run.sh"
    /\ pc = "main"
    /\ IF option = "-h"
       THEN sh_exit("0", cwd, procs, pidFiles, Append(steps, "usage"))
            /\ UNCHANGED <<MODE, trapSet>>
       ELSE IF option = "-x"
       THEN sh_exit("1", cwd, procs, pidFiles, steps \o <<"error", "usage">>)
            /\ UNCHANGED <<MODE, trapSet>>
       ELSE /\ MODE' = ModeOf(option)
            /\ trapSet' = TRUE
            /\ Continue("check_dependencies", cwd, procs, pidFiles, steps)
    /\ UNCHANGED disturbed

sh_check_dependencies ==
    /\ script = "run.sh"
    /\ pc = "check_dependencies"
    /\ \E found \in BOOLEAN :
          /\ disturbed' = (disturbed \/ ~found)
          /\ IF found
             THEN Continue("install_python_deps", cwd, procs, pidFiles,
                           Append(steps, "check"))
             ELSE sh_exit("1", cwd, procs, pidFiles, steps \o <<"check", "error">>)
    /\ UNCHANGED <<MODE, trapSet>>

sh_install_python_deps ==
    /\ script = "run.sh"
    /\ pc = "install_python_deps"
    /\ IF ~Exists(cwd, Requirements)
       THEN sh_exit("1", cwd, procs, pidFiles, Append(steps, "missing"))
            /\ UNCHANGED disturbed
       ELSE \E ok \in BOOLEAN :
               /\ disturbed' = (disturbed \/ ~ok)
               /\ IF ok
                  THEN Continue("install_node_deps", cwd, procs, pidFiles,
                                Append(steps, "pip"))
                  ELSE sh_exit("1", cwd, procs, pidFiles, steps)
    /\ UNCHANGED <<MODE, trapSet>>

\* install_node_deps, then main up to the start of the application
sh_install_node_deps ==
    /\ script = "run.sh"
    /\ pc = "install_node_deps"
    /\ IF ~Exists(cwd, App1)
       THEN sh_exit("1", cwd, procs, pidFiles, Append(steps, "missing"))
            /\ UNCHANGED disturbed
       ELSE IF ~Exists(cwd \o App1, PackageJson)
       THEN sh_exit("1", cwd \o App1, procs, pidFiles, Append(steps, "missing"))
            /\ UNCHANGED disturbed
       ELSE \E ok \in BOOLEAN :
               /\ disturbed' = (disturbed \/ ~ok)
               /\ IF ~ok
                  THEN sh_exit("1", cwd \o App1, procs, pidFiles, steps)
                  ELSE IF MODE = "setup"
                  THEN sh_exit("0", cwd, procs, pidFiles, Append(steps, "npm"))
                  ELSE Continue(IF MODE = "prod" THEN "start_production"
                                ELSE "start_backend",
                                cwd, procs, pidFiles, Append(steps, "npm"))
    /\ UNCHANGED <<MODE, trapSet>>

\* start_backend up to `sleep 3`
sh_start_backend ==
    /\ script = "run.sh"
    /\ pc = "start_backend"
    /\ IF ~Exists(cwd, Api)
       THEN sh_exit("1", cwd, procs, pidFiles, Append(steps, "missing"))
       ELSE Continue("start_backend_check", cwd,
                     [procs EXCEPT !.backend = Started(cwd \o Api)], pidFiles, steps)
    /\ UNCHANGED <<MODE, trapSet, disturbed>>

\* start_backend after the sleep: `kill -0 $BACKEND_PID`
sh_start_backend_check ==
    /\ script = "run.sh"
    /\ pc = "start_backend_check"
    /\ \E alive \in BOOLEAN :
          /\ disturbed' = (disturbed \/ ~alive)
          /\ IF alive /\ procs.backend.st = "running"
             THEN Continue("start_frontend", cwd, procs, pidFiles \cup {"backend.pid"},
                           Append(steps, "backend"))
             ELSE sh_exit("1", cwd, [procs EXCEPT !.backend.st = "exited"], pidFiles,
                          Append(steps, "error"))
    /\ UNCHANGED <<MODE, trapSet>>

sh_start_frontend ==
    /\ script = "run.sh"
    /\ pc = "start_frontend"
    /\ IF ~Exists(cwd, App1)
       THEN sh_exit("1", cwd, procs, pidFiles, Append(steps, "missing"))
       ELSE Continue("start_frontend_check", cwd,
                     [procs EXCEPT !.frontend = Started(cwd \o App1)], pidFiles, steps)
    /\ UNCHANGED <<MODE, trapSet, disturbed>>

sh_start_frontend_check ==
    /\ script = "run.sh"
    /\ pc = "start_frontend_check"
    /\ \E alive \in BOOLEAN :
          /\ disturbed' = (disturbed \/ ~alive)
          /\ IF alive /\ procs.frontend.st = "running"
             THEN Continue("wait", cwd, procs, pidFiles \cup {"frontend.pid"},
                           Append(steps, "frontend"))
             ELSE sh_exit("1", cwd, [procs EXCEPT !.frontend.st = "exited"], pidFiles,
                          Append(steps, "error"))
    /\ UNCHANGED <<MODE, trapSet>>

\* start_production up to `sleep 3`
sh_start_production ==
    /\ script = "run.sh"
    /\ pc = "start_production"
    /\ IF ~Exists(cwd, App1)
       THEN sh_exit("1", cwd, procs, pidFiles, steps)
            /\ UNCHANGED disturbed
       ELSE \E ok \in BOOLEAN :
               /\ disturbed' = (disturbed \/ ~ok)
               /\ IF ~ok
                  THEN sh_exit("1", cwd \o App1, procs, pidFiles, steps)
                  ELSE IF ~Exists(cwd, Api)
                  THEN sh_exit("1", cwd, procs, pidFiles, Append(steps, "build"))
                  ELSE Continue("start_production_check", cwd,
                                [procs EXCEPT !.backend = Started(cwd \o Api)], pidFiles,
                                Append(steps, "build"))
    /\ UNCHANGED <<MODE, trapSet>>

\* start_production after the sleep, then the end of main: the script exits
sh_start_production_check ==
    /\ script = "run.sh"
    /\ pc = "start_production_check"
    /\ \E alive \in BOOLEAN :
          /\ disturbed' = (disturbed \/ ~alive)
          /\ IF alive /\ procs.backend.st = "running"
             THEN sh_exit("0", cwd, procs, pidFiles \cup {"backend.pid"},
                          Append(steps, "backend"))
             ELSE sh_exit("1", cwd, [procs EXCEPT !.backend.st = "exited"], pidFiles,
                          Append(steps, "error"))
    /\ UNCHANGED <<MODE, trapSet>>

\* `wait` returns when both children have finished; main ends
sh_wait ==
    /\ script = "run.sh"
    /\ pc = "wait"
    /\ sh_exit("0", cwd, [p \in Services |-> [procs[p] EXCEPT !.st = "exited"]],
               pidFiles, steps)
    /\ UNCHANGED <<MODE, trapSet, disturbed>>

\* Ctrl+C: the shell is interrupted; a child that is running either ends on
\* the signal or survives it
sh_interrupt ==
    /\ script = "run.sh"
    /\ pc \notin {"idle", "done"}
    /\ \E ends \in SUBSET Services :
          sh_exit("130", cwd,
                  [p \in Services |->
                      IF p \in ends /\ procs[p].st = "running"
                      THEN [procs[p] EXCEPT !.st = "exited"] ELSE procs[p]],
                  pidFiles, steps)
    /\ disturbed' = TRUE
    /\ UNCHANGED <<MODE, trapSet>>

\* ----------------------------------------------------------------- run.bat
\* `exit /b` in a subroutine entered with `call :label` returns to the
\* caller; at the top level it ends the script.  Nothing is registered for
\* the exit of the script.
bat_exit(code, dir, ps, done) ==
    /\ pc' = "done"
    /\ exitStatus' = code
    /\ cwd' = dir
    /\ procs' = ps
    /\ steps' = done
    /\ UNCHANGED <<pidFiles, providerVars, homeVars, tableVars, script, option, fsys, first>>

\* lines 14-58.  npm is started without `call`: when it is a batch file
\* (npm.cmd) control does not come back to the script.
bat_check_dependencies ==
    /\ script = "run.bat"
    /\ pc = "main"
    /\ \E found \in BOOLEAN, returns \in BOOLEAN :
          /\ disturbed' = (disturbed \/ ~found \/ ~returns)
          /\ IF ~found
             THEN bat_exit("1", cwd, procs, steps \o <<"check", "error">>)
             ELSE IF ~returns
             THEN bat_exit("0", cwd, procs, Append(steps, "check"))
             ELSE Continue("install_python_deps", cwd, procs, pidFiles,
                           Append(steps, "check"))
    /\ UNCHANGED <<MODE, trapSet>>

bat_install_python_deps ==
    /\ script = "run.bat"
    /\ pc = "install_python_deps"
    /\ IF ~Exists(cwd, Requirements)
       THEN Continue("install_node_deps", cwd, procs, pidFiles, Append(steps, "missing"))
            /\ UNCHANGED disturbed
       ELSE \E ok \in BOOLEAN :
               /\ disturbed' = (disturbed \/ ~ok)
               /\ Continue("install_node_deps", cwd, procs, pidFiles,
                           IF ok THEN Append(steps, "pip") ELSE steps)
    /\ UNCHANGED <<MODE, trapSet>>

\* the continuation of the main flow after the dependencies (lines 66-100)
bat_mode(dir, done) ==
    /\ MODE' = ModeOf(option)
    /\ IF ModeOf(option) = "help"
       THEN bat_exit("0", dir, procs, Append(done, "usage"))
       ELSE IF ModeOf(option) = "setup"
       THEN bat_exit("0", dir, procs, done)
       ELSE Continue(IF ModeOf(option) = "prod" THEN "start_production" ELSE "start_backend",
                     dir, procs, pidFiles, done)

bat_install_node_deps ==
    /\ script = "run.bat"
    /\ pc = "install_node_deps"
    /\ IF ~Exists(cwd, App1)
       THEN bat_mode(cwd, Append(steps, "missing")) /\ UNCHANGED disturbed
       ELSE IF ~Exists(cwd \o App1, PackageJson)
       THEN bat_mode(cwd \o App1, Append(steps, "missing")) /\ UNCHANGED disturbed
       ELSE \E ok \in BOOLEAN :
               /\ disturbed' = (disturbed \/ ~ok)
               /\ bat_mode(Up2(cwd \o App1), IF ok THEN Append(steps, "npm") ELSE steps)
    /\ UNCHANGED trapSet

\* `start "..." cmd /c "cd /d rel && command"` issued in directory dir
Launch(dir, rel) ==
    IF Exists(dir, rel) THEN Started(dir \o rel) ELSE [st |-> "failed", dir |-> dir \o rel]

bat_start_backend ==
    /\ script = "run.bat"
    /\ pc = "start_backend"
    /\ IF ~Exists(cwd, Api)
       THEN Continue("start_frontend", cwd, procs, pidFiles, Append(steps, "missing"))
       ELSE Continue("start_frontend", cwd, [procs EXCEPT !.backend = Launch(cwd, Api)],
                     pidFiles, Append(steps, "backend"))
    /\ UNCHANGED <<MODE, trapSet, disturbed>>

bat_start_frontend ==
    /\ script = "run.bat"
    /\ pc = "start_frontend"
    /\ IF ~Exists(cwd, App1)
       THEN Continue("pause", cwd, procs, pidFiles, Append(steps, "missing"))
       ELSE Continue("pause", Up2(cwd \o App1),
                     [procs EXCEPT !.frontend = Launch(cwd \o App1, App1)],
                     pidFiles, Append(steps, "frontend"))
    /\ UNCHANGED <<MODE, trapSet, disturbed>>

\* `pause` returns on a key press; `goto :eof` ends the script
bat_pause ==
    /\ script = "run.bat"
    /\ pc = "pause"
    /\ bat_exit("0", cwd, procs, steps)
    /\ UNCHANGED <<MODE, trapSet, disturbed>>

\* start_production, then `goto :eof`
bat_start_production ==
    /\ script = "run.bat"
    /\ pc = "start_production"
    /\ \E ok \in BOOLEAN :
          /\ disturbed' = (disturbed \/ ~ok)
          /\ LET inApp1 == Exists(cwd, App1)
                 built == ok /\ inApp1
                 back == Up2(IF inApp1 THEN cwd \o App1 ELSE cwd)
             IN  bat_exit("0", back, [procs EXCEPT !.backend = Launch(back, Api)],
                          (IF built THEN Append(steps, "build") ELSE steps)
                              \o <<"backend">>)
    /\ UNCHANGED <<MODE, trapSet>>

\* Ctrl+C: the batch job is terminated
bat_interrupt ==
    /\ script = "run.bat"
    /\ pc \notin {"idle", "done"}
    /\ bat_exit("130", cwd, procs, steps)
    /\ disturbed' = TRUE
    /\ UNCHANGED <<MODE, trapSet>>

\* run.bat is run in the same project, with the same option, after run.sh
\* has ended
SecondRun ==
    /\ script = "run.sh"
    /\ pc = "done"
    /\ first = NoOutcome
    /\ first' = Outcome
    /\ script' = "run.bat"
    /\ pc' = "main"
    /\ MODE' = "dev"
    /\ cwd' = Root
    /\ trapSet' = FALSE
    /\ procs' = NoProcs
    /\ pidFiles' = {}
    /\ steps' = <<>>
    /\ exitStatus' = "none"
    /\ UNCHANGED <<option, fsys, disturbed, providerVars, homeVars, tableVars>>

ScriptInit ==
    /\ ProviderInit
    /\ HomeInit
    /\ wsService = FALSE
    /\ TableIdle
    /\ first = NoOutcome
    /\ disturbed = FALSE
    /\ script \in Scripts
    /\ option \in Options
    /\ fsys \in FileSystems
    /\ pc = "main"
    /\ MODE = "dev"
    /\ cwd = Root
    /\ trapSet = FALSE
    /\ procs = NoProcs
    /\ pidFiles = {}
    /\ steps = <<>>
    /\ exitStatus = "none"

ScriptNext ==
    \/ sh_main
    \/ sh_check_dependencies
    \/ sh_install_python_deps
    \/ sh_install_node_deps
    \/ sh_start_backend
    \/ sh_start_backend_check
    \/ sh_start_frontend
    \/ sh_start_frontend_check
    \/ sh_start_production
    \/ sh_start_production_check
    \/ sh_wait
    \/ sh_interrupt
    \/ bat_check_dependencies
    \/ bat_install_python_deps
    \/ bat_install_node_deps
    \/ bat_start_backend
    \/ bat_start_frontend
    \/ bat_pause
    \/ bat_start_production
    \/ bat_interrupt
    \/ SecondRun

ScriptSpec == ScriptInit /\ [][ScriptNext]_vars

\* ------------------------------------------------------ run_simulation.bat
\* The simulation script is run.bat without the options: checks, installs,
\* backend and frontend in windows of their own, then `pause` and an attempt
\* to stop the processes.
SimulationScript == "run_simulation.bat"

BatchScripts == {"run.bat", SimulationScript}

sim_check_dependencies ==
    /\ script = SimulationScript
    /\ pc = "main"
    /\ \E found \in BOOLEAN, returns \in BOOLEAN :
          /\ disturbed' = (disturbed \/ ~found \/ ~returns)
          /\ IF ~found
             THEN bat_exit("1", cwd, procs, steps \o <<"check", "error">>)
             ELSE IF ~returns
             THEN bat_exit("0", cwd, procs, Append(steps, "check"))
             ELSE Continue("install_python_deps", cwd, procs, pidFiles,
                           Append(steps, "check"))
    /\ UNCHANGED <<MODE, trapSet>>

sim_install_python_deps ==
    /\ script = SimulationScript
    /\ pc = "install_python_deps"
    /\ IF ~Exists(cwd, Requirements)
       THEN Continue("install_node_deps", cwd, procs, pidFiles, Append(steps, "missing"))
            /\ UNCHANGED disturbed
       ELSE \E ok \in BOOLEAN :
               /\ disturbed' = (disturbed \/ ~ok)
               /\ Continue("install_node_deps", cwd, procs, pidFiles,
                           IF ok THEN Append(steps, "pip") ELSE steps)
    /\ UNCHANGED <<MODE, trapSet>>

sim_install_node_deps ==
    /\ script = SimulationScript
    /\ pc = "install_node_deps"
    /\ IF ~Exists(cwd, App1)
       THEN Continue("start_backend", cwd, procs, pidFiles, Append(steps, "missing"))
            /\ UNCHANGED disturbed
       ELSE IF ~Exists(cwd \o App1, PackageJson)
       THEN Continue("start_backend", cwd \o App1, procs, pidFiles,
                     Append(steps, "missing"))
            /\ UNCHANGED disturbed
       ELSE \E ok \in BOOLEAN :
               /\ disturbed' = (disturbed \/ ~ok)
               /\ Continue("start_backend", Up2(cwd \o App1), procs, pidFiles,
                           IF ok THEN Append(steps, "npm") ELSE steps)
    /\ UNCHANGED <<MODE, trapSet>>

sim_start_backend ==
    /\ script = SimulationScript
    /\ pc = "start_backend"
    /\ IF ~Exists(cwd, Api)
       THEN Continue("start_frontend", cwd, procs, pidFiles, Append(steps, "missing"))
       ELSE Continue("start_frontend", cwd, [procs EXCEPT !.backend = Launch(cwd, Api)],
                     pidFiles, Append(steps, "backend"))
    /\ UNCHANGED <<MODE, trapSet, disturbed>>

sim_start_frontend ==
    /\ script = SimulationScript
    /\ pc = "start_frontend"
    /\ IF ~Exists(cwd, App1)
       THEN Continue("pause", cwd, procs, pidFiles, Append(steps, "missing"))
       ELSE Continue("pause", Up2(cwd \o App1),
                     [procs EXCEPT !.frontend = Launch(cwd \o App1, App1)],
                     pidFiles, Append(steps, "frontend"))
    /\ UNCHANGED <<MODE, trapSet, disturbed>>

\* taskkill /f /im uvicorn.exe, taskkill /f /im node.exe: the backend runs as
\* `python -m uvicorn`, the frontend as node
cleanup_processes(ps) ==
    [ps EXCEPT !.frontend.st = IF @ = "running" THEN "killed" ELSE @]

\* `pause >nul` returns on a key press; cleanup_processes; `goto :eof`
sim_pause ==
    /\ script = SimulationScript
    /\ pc = "pause"
    /\ bat_exit("0", cwd, cleanup_processes(procs), Append(steps, "cleanup"))
    /\ UNCHANGED <<MODE, trapSet, disturbed>>

\* Ctrl+C, or the window is closed
sim_interrupt ==
    /\ script = SimulationScript
    /\ pc \notin {"idle", "done"}
    /\ bat_exit("130", cwd, procs, steps)
    /\ disturbed' = TRUE
    /\ UNCHANGED <<MODE, trapSet>>

BatchInit ==
    /\ ProviderInit
    /\ HomeInit
    /\ wsService = FALSE
    /\ TableIdle
    /\ first = NoOutcome
    /\ disturbed = FALSE
    /\ script \in BatchScripts
    /\ option \in (IF script = SimulationScript THEN {""} ELSE Options)
    /\ fsys \in FileSystems
    /\ pc = "main"
    /\ MODE = "dev"
    /\ cwd = Root
    /\ trapSet = FALSE
    /\ procs = NoProcs
    /\ pidFiles = {}
    /\ steps = <<>>
    /\ exitStatus = "none"

BatchNext ==
    \/ bat_check_dependencies
    \/ bat_install_python_deps
    \/ bat_install_node_deps
    \/ bat_start_backend
    \/ bat_start_frontend
    \/ bat_pause
    \/ bat_start_production
    \/ bat_interrupt
    \/ sim_check_dependencies
    \/ sim_install_python_deps
    \/ sim_install_node_deps
    \/ sim_start_backend
    \/ sim_start_frontend
    \/ sim_pause
    \/ sim_interrupt

BatchSpec == BatchInit /\ [][BatchNext]_vars

Init == ProviderInit /\ HomeInit /\ TableIdle /\ ScriptIdle

Next ==
    \/ Mount
    \/ Unmount
    \/ refreshData
    \/ FetchOk
    \/ FetchFail
    \/ PushCurrent
    \/ PushLegacy
    \/ PushMalformed
    \/ handleSelect
    \/ handleRemove
    \/ handleSelectAll
    \/ handleSelectAllLabel
    \/ handleClear

Spec == Init /\ [][Next]_vars

\* ------------------------------------------------------------------ Home
\* Home renders the MetricsProvider once, around the header and the content;
\* the content shows the view of the current mode.
Views == {"dashboard", "chart", "table", "logs"}

\* the views the content renders: {mode === v && <View />} for each v
rendered == {v \in Views : mode = v}

\* the views that read the store and run the selection effect when mounted
StoreViews == {"dashboard", "chart", "table"}

setMode_ResetsSelection(m) ==
    /\ mode' = m
    /\ selectedInterfaces' = autoSelectEffect(availableInterfaces, <<>>)

\* onClick of a mode button: setMode(m).  Home re-renders, the provider
\* element keeps its position in the tree and so its state and effects; the
\* view of the new mode is mounted and runs its own selection effect.
setMode(m) ==
    /\ mode' = m
    /\ selectedInterfaces' =
          IF m \in StoreViews /\ m # mode
          THEN autoSelectEffect(availableInterfaces, selectedInterfaces)
          ELSE selectedInterfaces

SwitchView ==
    \E m \in Views :
        /\ phase = "mounted"
        /\ setMode(m)
        /\ last' = Step("setMode")
        /\ console' = "none"
        /\ UNCHANGED <<metrics, interfaces, chartData, latestMetrics, avgLatency,
                       avgThroughput, availableInterfaces, loading, error, phase,
                       wsService, subscription, wsCalls, pending, nfetch,
                       pushed, history, explicit, everAvailable, delivered,
                       atTeardown, tableVars, scriptVars>>

ViewNext ==
    \/ Mount
    \/ FetchOk
    \/ FetchFail
    \/ PushCurrent
    \/ SwitchView

ViewSpec == Init /\ [][ViewNext]_vars

\* the provider receiving well-formed and partial current-shape pushes
PartialNext ==
    \/ Mount
    \/ FetchOk
    \/ FetchFail
    \/ PushCurrent
    \/ PushPartial

PartialSpec == Init /\ [][PartialNext]_vars

\* ------------------------------------------------------------ pull cycle
\* The pulls of one provider, from mount to teardown.  An awaited request
\* that settles has its continuation run by the event loop, so a pull in
\* flight is not left waiting for ever: weak fairness on the settling steps.
PullNext ==
    \/ Mount
    \/ Unmount
    \/ refreshData
    \/ FetchOk
    \/ FetchFail
    \/ PushCurrent

PullSpec == Init /\ [][PullNext]_vars /\ WF_vars(FetchOk \/ FetchFail)

\* TableMode alone: any sample with non-negative or missing counters
TableInit ==
    /\ ProviderInit
    /\ HomeInit
    /\ wsService = FALSE
    /\ ScriptIdle
    /\ metric \in [packets_sent : Counters, packets_recv : Counters, bytes_recv : ByteCounts]
    /\ row = NoRow

TableNext == TableModeRender

TableSpec == TableInit /\ [][TableNext]_vars

TypeOK ==
    /\ loading \in BOOLEAN
    /\ error \in {Null, FetchErrorMessage}
    /\ Len(metrics) <= 2
    /\ Len(chartData) <= MaxHist
    /\ history \subseteq 1..MaxTs
    /\ nfetch \in 0..MaxFetches
    /\ BagCardinality(pending) <= MaxFetches

\* ================================================================ claims
IsUpdate(op) == op \in {"fetchOk", "pushCurrent", "pushLegacy"}

KpisZero == latestMetrics = ZeroLatest /\ avgLatency = 0 /\ avgThroughput = 0

\* C1: after every applied update (fetch completion or push) the latest view
\* shows the update with the highest timestamp seen so far: every sample of
\* metrics carries that timestamp, also when the update just applied was older.
C1_LatestViewIsHighestTimestamp ==
    IsUpdate(last.op) =>
        \A i \in DOMAIN metrics : metrics[i].timestamp = lastAppliedTs

\* C2: the completion of a pull that was overtaken by a newer push (a push
\* applied while the pull was in flight, with a higher timestamp than the
\* pull's result) leaves metrics, interfaces, available interfaces and KPIs
\* as the push installed them.
C2_SlowPullDoesNotClobberPush ==
    [][(last'.op = "fetchOk" /\ last'.overtaken /\ last'.stale)
          => UNCHANGED <<metrics, interfaces, availableInterfaces, latestMetrics,
                         avgLatency, avgThroughput>>]_vars

\* C3: after an accepted update the chart series has a point for every
\* snapshot accepted so far (stated for the updates whose series the store
\* builds itself: pull completions and legacy pushes).
C3_SeriesCoversHistory ==
    last.op \in {"fetchOk", "pushLegacy"} =>
        \A t \in history : \E i \in DOMAIN chartData : chartData[i].time = TimeLabel(t)

\* C4: a non-empty explicit selection made by the operator is still the
\* selected set as long as the available interface names are unchanged.
C4_ExplicitSelectionKept ==
    (explicit.on /\ explicit.sel # <<>>) => selectedInterfaces = explicit.sel

\* C5: a push payload matching neither wire shape only writes the diagnostic:
\* no cell of the store changes.
C5_MalformedPushIgnored ==
    [][last'.op = "pushMalformed"
          => (UNCHANGED store /\ console' = "warn: Invalid WebSocket data format")]_vars

C5_Witness ==
    /\ last.op = "pushMalformed"
    /\ metrics # <<>>
    /\ chartData # <<>>
    /\ selectedInterfaces # <<>>
    /\ latestMetrics # ZeroLatest

\* C6: right after a failed pull the error is set, metrics, interfaces, chart
\* series and available interfaces are empty, the KPIs are 0 and loading is
\* false.
C6_FetchFailureResets ==
    last.op = "fetchFail" =>
        /\ error # Null
        /\ metrics = <<>>
        /\ interfaces = <<>>
        /\ chartData = <<>>
        /\ availableInterfaces = <<>>
        /\ KpisZero
        /\ loading = FALSE

C6_Witness ==
    last.op = "fetchFail" /\ history # {} /\ selectedInterfaces # <<>>

\* C7: whenever the error is set, metrics, interfaces and chart series are
\* empty and the KPIs are 0.
C7_NoDataBesideError ==
    error # Null =>
        (metrics = <<>> /\ interfaces = <<>> /\ chartData = <<>> /\ KpisZero)

\* C8: when an update makes the available interfaces non-empty while they
\* and the selection were empty, the selection is the full available list
\* once the update has settled.
C8_AutoSelectAll ==
    last.fill => (availableInterfaces # <<>> /\ selectedInterfaces = availableInterfaces)

C8_Witness ==
    last.fill /\ last.op = "fetchOk" /\ Len(selectedInterfaces) = 2

\* C9: after the operator cleared the selection, the selected set is empty
\* as long as the available interface names are unchanged.
C9_ClearedSelectionStaysEmpty ==
    (explicit.on /\ explicit.sel = <<>>) => selectedInterfaces = <<>>

\* C10: the selected names are always among the available names.
C10_SelectedSubsetOfAvailable ==
    Range(selectedInterfaces) \subseteq Range(availableInterfaces)

\* C10 (amended): the selected names are always among the names that have
\* been available at some time; names that are no longer available stay.
C10_SelectedWasAvailable ==
    Range(selectedInterfaces) \subseteq everAvailable

C10_Witness ==
    /\ ~(Range(selectedInterfaces) \subseteq Range(availableInterfaces))
    /\ IsUpdate(last.op)
    /\ availableInterfaces # <<>>

Kpis == [latestMetric |-> latestMetrics, avgLatency |-> avgLatency,
         avgThroughput |-> avgThroughput]

\* C11: an update (pull completion or push) after which some selected names
\* are no longer available, applied while the selection is non-empty, leaves
\* the selected list as it was.
C11_StaleSelectionKept ==
    [][(/\ IsUpdate(last'.op)
        /\ selectedInterfaces # <<>>
        /\ ~(Range(selectedInterfaces) \subseteq Range(availableInterfaces')))
          => selectedInterfaces' = selectedInterfaces]_vars

\* C12: every applied update computes the KPIs from its own samples filtered
\* by the selection current when it is applied.
C12_KpisUseCurrentSelection ==
    [][IsUpdate(last'.op) => Kpis' = getLatestMetrics(metrics', selectedInterfaces)]_vars

\* C13: in every settled state the exposed KPIs are the aggregate of the
\* current metrics restricted to the currently selected interfaces.
C13_KpisMatchSelection ==
    Kpis = getLatestMetrics(metrics, selectedInterfaces)

C15_SubscriptionReleased ==
    /\ ~wsService => wsCalls = <<>>
    /\ (wsService /\ phase = "constructed") => wsCalls = <<>>
    /\ (wsService /\ phase = "mounted") => wsCalls = <<WsCall("subscribe")>>
    /\ (wsService /\ phase = "unmounted") =>
           /\ wsCalls = <<WsCall("subscribe"), WsCall("unsubscribe")>>
           /\ wsCalls[2].topic = wsCalls[1].topic
           /\ wsCalls[2].handler = wsCalls[1].handler
           /\ ~subscription.active

C15_Witness ==
    phase = "unmounted" /\ Len(wsCalls) = 2 /\ pushed /\ pending # EmptyBag

\* the exposed state left by a failed pull
FetchErrorState ==
    /\ error = FetchErrorMessage
    /\ metrics = <<>>
    /\ interfaces = <<>>
    /\ chartData = <<>>
    /\ availableInterfaces = <<>>
    /\ KpisZero
    /\ ~loading

\* C16: in pull-only mode (no channel at mount) the exposed state is never
\* the one a failed pull leaves: the two conditions can be told apart, also
\* when the pull of the pull-only mode fails.
C16_PullOnlyDistinguishable ==
    (~wsService /\ phase = "mounted") => ~FetchErrorState


\* C17: for every sample whose packets_sent, packets_recv and bytes_recv are
\* non-negative integers or missing, the packet loss percentage of its row is
\* in [0, 100], and is 0 when packets_sent is 0 or packets_recv exceeds
\* packets_sent; the bandwidth in MB is non-negative; a missing counter
\* counts as 0.
C17_DerivedFieldsInRange ==
    row.shown =>
        /\ row.packetLoss.den > 0
        /\ row.bandwidth.den > 0
        /\ 0 <= row.packetLoss.num
        /\ row.packetLoss.num <= 100 * row.packetLoss.den
        /\ row.bandwidth.num >= 0
        /\ (\/ metric.packets_sent \in {0, Missing}
            \/ metric.packets_recv > metric.packets_sent) => row.packetLoss.num = 0
        /\ (metric.packets_recv = Missing /\ metric.packets_sent > 0)
               => row.packetLoss.num = 100 * row.packetLoss.den
        /\ metric.bytes_recv = Missing => row.bandwidth.num = 0
        /\ metric.bytes_recv # Missing =>
               row.bandwidth.num = metric.bytes_recv /\ row.bandwidth.den = BytesPerMB

C17_Witness ==
    /\ row.shown
    /\ metric.packets_sent > 0
    /\ metric.packets_recv > metric.packets_sent
    /\ metric.bytes_recv = Missing
    /\ row.packetLoss.num = 0

\* C18: in production mode run.sh builds the frontend and starts the backend,
\* and once the script has finished its startup sequence the backend is still
\* running: the script's exit handling does not terminate it.
C18_ProdBackendKeepsRunning ==
    (script = "run.sh" /\ MODE = "prod" /\ pc = "done" /\ exitStatus = "0") =>
        /\ "build" \in Range(steps)
        /\ "backend" \in Range(steps)
        /\ procs.backend.st = "running"

\* C19: both scripts record the processes they start in .pid files, and when
\* the script has exited (normally, on error or on Ctrl+C) no process it
\* started is running and no .pid file is left.
C19_ProcessesCleanedUp ==
    /\ pc \in {"wait", "pause"} =>
           \A p \in Services : procs[p].st = "running" => PidFile(p) \in pidFiles
    /\ pc = "done" =>
           /\ \A p \in Services : procs[p].st # "running"
           /\ pidFiles = {}

\* C20: with the setup option each script installs the Python and the Node.js
\* dependencies and exits, and never starts the backend or the frontend.
C20_SetupInstallsOnly ==
    option = "-s" =>
        /\ \A p \in Services : procs[p].st = "none"
        /\ "backend" \notin Range(steps) /\ "frontend" \notin Range(steps)
        /\ (pc = "done" /\ exitStatus = "0") =>
               "pip" \in Range(steps) /\ "npm" \in Range(steps)

\* C21: run.sh and run.bat do the same: run with the same option in the same
\* project, with every external command succeeding and no interruption, both
\* perform the same sequence of observable steps (dependency check,
\* dependency installs, backend start, frontend start, usage display) and
\* both succeed or both fail.
C21_ScriptsEquivalent ==
    (script = "run.bat" /\ first # NoOutcome /\ pc = "done" /\ ~disturbed) =>
        /\ Outcome.steps = first.steps
        /\ (exitStatus = "0") <=> (first.status = "0")

\* C24: when a script finds a prerequisite of a step missing it reports it
\* and stops with a failure status; no later step is executed, so neither the
\* backend nor the frontend is started afterwards.
C24_MissingPrerequisiteStops ==
    \A i \in DOMAIN steps :
        steps[i] = "missing" =>
            /\ pc = "done"
            /\ exitStatus = "1"
            /\ \A j \in (i + 1)..Len(steps) : steps[j] = "cleanup"

\* C25: when a batch script has started the frontend, `npm run dev` runs
\* with frontend\app1 (relative to the project root) as its working
\* directory, and the script is back in the project root when the step
\* returns.
C25_FrontendWorkingDirectory ==
    (script \in BatchScripts /\ pc = "pause" /\ "frontend" \in Range(steps)) =>
        /\ procs.frontend = Started(App1)
        /\ cwd = Root

\* C30: the MultiSelect shows the collapsed 'All' summary only when every
\* option is selected, that is when the selected set equals the option set,
\* also when the selected list holds names that are no longer options.
C30_AllSummaryMeansAllSelected ==
    (MultiSelectShown /\ summary(availableInterfaces, selectedInterfaces) = "All") =>
        Range(selectedInterfaces) = Range(availableInterfaces)

\* C26: whenever a pull completes successfully the exposed error is null
\* immediately afterwards, also when pulls overlap and another one has
\* failed in the meantime.
C26_ErrorNullAfterSuccessfulPull ==
    [][last'.op = "fetchOk" => error' = Null]_vars

\* C27: loading is true in every state in which at least one pull of the
\* mounted provider is in flight.
C27_LoadingWhilePullInFlight ==
    (phase = "mounted" /\ pending # EmptyBag) => loading

C29_ViewSwitchKeepsStore ==
    /\ [](Cardinality(rendered) = 1)
    /\ [][mode' # mode =>
            UNCHANGED <<store, phase, subscription, wsCalls, pending, nfetch>>]_vars

C29_Witness ==
    /\ last.op = "setMode"
    /\ mode = "logs"
    /\ pushed
    /\ nfetch = 1
    /\ wsCalls = <<WsCall("subscribe")>>
    /\ availableInterfaces = <<"eth0", "wlan0">>
    /\ selectedInterfaces = <<"eth0">>

\* C28: provided every pull settles, the loading flag of the mounted
\* provider becomes false after mount and after every refresh, whether the
\* pulls resolve or reject, and once false it stays false until a refresh
\* starts another pull.
C28_LoadingEventuallyFalse ==
    /\ (phase = "mounted" /\ loading) ~> (~loading \/ phase = "unmounted")
    /\ [][(~loading /\ loading') =>
            (phase = "mounted" /\ nfetch' = nfetch + 1)]_vars

C28_Witness ==
    /\ phase = "mounted"
    /\ wsService
    /\ last.op = "fetchFail"
    /\ nfetch = MaxFetches
    /\ pending = EmptyBag
    /\ ~loading

\* C22: a push with truthy current_data and historical_data whose
\* current_data lacks performance_metrics or interfaces is rejected as a
\* whole: the handler does not throw and modifies no store field.
C22_PartialPushRejected ==
    [][last'.op = "pushPartial" =>
          /\ console' # Uncaught
          /\ UNCHANGED <<metrics, interfaces, chartData, latestMetrics, avgLatency,
                         avgThroughput, availableInterfaces, selectedInterfaces>>]_vars
====
